---- MODULE Spec2Model ----
(***************************************************************************)
(* Model of convolveParallel.c: a 3x3 integer convolution of an RGBA       *)
(* raster, split over number_of_threads pthreads by byte ranges.           *)
(*                                                                         *)
(* main is one sequential process (pc), every pthread running convolve is  *)
(* one process (worker[w].pc).  One step of a worker is one execution of   *)
(* the body of its inner loop (one output pixel, four bytes) together with *)
(* the loop tests that lead to it; loop tests touch only locals.           *)
(***************************************************************************)
EXTENDS Integers, FiniteSets, Sequences, TLC

\* ------------------------------------------------------------------ bounds
\* Largest image (in pixels) a PNG on disk holds in this model.
MaxPixels ==
  4
\* Largest value given to -n.
MaxThreads ==
  4
\* Number of times the program is started in SpecRelaunch.
MaxLaunches ==
  2
\* The images of SpecRelaunch have 4 columns and 4, 8, .. 4 * MaxQuads rows.
MaxQuads ==
  2

\* ------------------------------------------------------- program constants
BYTES_PER_PIXEL ==
  4
ALPHA_OFFSET ==
  3
KERNEL_DIM ==
  3

NULL ==
  "NULL"

\* ------------------------------------------------------------------ macros
IMG_BYTE(columns, r, c, b) ==
  (columns * BYTES_PER_PIXEL * r) + (BYTES_PER_PIXEL * c) + b

CLAMP(val, min, max) ==
  IF val < min THEN min ELSE IF val > max THEN max ELSE val

\* C's int division: the quotient is truncated toward zero.
CDiv(a, b) ==
  LET absa == IF a < 0 THEN -a ELSE a
      absb == IF b < 0 THEN -b ELSE b
      q    == absa \div absb
  IN  IF (a < 0) = (b < 0) THEN q ELSE -q

\* ----------------------------------------------------------------- kernels
kernel_catalog ==
  ( "identity"      :> << <<0, 0, 0>>,    <<0, 1, 0>>,   <<0, 0, 0>> >> ) @@
  ( "edge-detect"   :> << <<-1, -1, -1>>, <<-1, 8, -1>>, <<-1, -1, -1>> >> ) @@
  ( "sharpen"       :> << <<0, -1, 0>>,   <<-1, 5, -1>>, <<0, -1, 0>> >> ) @@
  ( "emboss"        :> << <<-2, -1, 0>>,  <<-1, 1, 1>>,  <<0, -2, 2>> >> ) @@
  ( "gaussian-blur" :> << <<1, 2, 1>>,    <<2, 4, 2>>,   <<1, 2, 1>> >> )

DEFAULT_KERNEL_NAME ==
  "identity"

find_entry_by_name(name) ==
  IF name \in DOMAIN kernel_catalog THEN name ELSE NULL

\* The taps in the order of the two loops over kr and kc.
KernelTaps ==
  [n \in 0 .. (KERNEL_DIM * KERNEL_DIM - 1) |-> << n \div KERNEL_DIM, n % KERNEL_DIM >>]

\* f[taps 0 .. n-1] added up, as the loops add them.
RECURSIVE SumTaps(_, _)
SumTaps(f, n) ==
  IF n = 0 THEN 0 ELSE SumTaps(f, n - 1) + f[n - 1]

\* normalize_kernel without its test for a sum of 0.
normalize_kernel_unguarded(kernel) ==
  SumTaps([n \in DOMAIN KernelTaps |->
             kernel[KernelTaps[n][1] + 1][KernelTaps[n][2] + 1]],
          KERNEL_DIM * KERNEL_DIM)

\* normalize_kernel (lines 103-118).
normalize_kernel(kernel) ==
  LET norm == SumTaps([n \in DOMAIN KernelTaps |->
                         kernel[KernelTaps[n][1] + 1][KernelTaps[n][2] + 1]],
                      KERNEL_DIM * KERNEL_DIM)
  IN  IF norm = 0 THEN 1 ELSE norm

\* ------------------------------------------------------------------ images
\* An image_t: pixels is the byte array, indexed from 0.
NoImage ==
  [pixels |-> <<>>, rows |-> 0, columns |-> 0]

\* A read of pixels[off].  Every offset the program computes is inside the
\* array (InBoundsAccess below), so the ELSE branch is never taken.
Load(image, off) ==
  IF 0 <= off /\ off < image.columns * image.rows * BYTES_PER_PIXEL
  THEN image.pixels[off] ELSE 0

\* The pixel patterns of the input files.
Patterns ==
  {0}

\* The bytes of the input file with pattern `seed`.
FileByte(seed, off) ==
  (off * (37 + 64 * seed) + 11 + 189 * seed) % 256

Files ==
  { [rows |-> r, columns |-> c, seed |-> s] :
      r \in 1 .. MaxPixels, c \in 1 .. MaxPixels, s \in Patterns }

\* A file that lodepng cannot decode.
CorruptFile ==
  [rows |-> 0, columns |-> 0, seed |-> 0]

\* lodepng_decode32_file(&pixels, &columns, &rows, file_name): the error code
\* and what the three out-parameters hold afterwards.  A failed decode
\* populates nothing: no pixels, 0 columns, 0 rows.
lodepng_decode32_file(f) ==
  IF f = CorruptFile
  THEN [error |-> 78, pixels |-> <<>>, rows |-> 0, columns |-> 0]
  ELSE [error   |-> 0,
        pixels  |-> [off \in 0 .. (f.rows * f.columns * BYTES_PER_PIXEL - 1)
                       |-> FileByte(f.seed, off)],
        rows    |-> f.rows,
        columns |-> f.columns]

\* malloc'ed memory holds indeterminate bytes until it is written; a read of
\* such a byte yields any value (here: one of HeapBytes).  The mark is no
\* byte value.
Indeterminate ==
  0 - 1

HeapBytes ==
  {0, 255}

\* ------------------------------------------------------------ command line
NoArg ==
  "(none)"

Argvs ==
  [ i : {NoArg, "in.png"},
    o : {NoArg, "in.png", "out.png"},
    k : DOMAIN kernel_catalog \cup {"bogus"},
    n : -1 .. MaxThreads ]

Threads ==
  0 .. MaxThreads - 1

NoArguments ==
  [thread_id |-> -1, section_size |-> -1, kernel |-> NULL]

UnbornWorker ==
  [pc |-> "unborn", thread_id |-> 0, section_size |-> 0, kernel |-> NULL,
   kernel_norm |-> 0, next_section_offset |-> 0, r |-> 0, c |-> 0, c_start |-> 0]

VARIABLES
  file,              \* the PNG on disk named by -i
  argv,              \* the command line
  pc,                \* main's position
  exit_status,       \* the process's exit status, -1 while it runs
  selected_entry,    \* main's selected_entry (a catalog name)
  number_of_threads, \* main's number_of_threads
  input,             \* main's image_t input
  output,            \* main's image_t output
  i,                 \* main's loop counter
  thread_arguments,  \* main's thread_arguments[]
  worker,            \* the pthreads: position and locals of convolve
  wrote,             \* history: output offsets each thread has written
  joined,            \* history: threads main has joined
  failed,            \* history: a pthread call returned non-zero
  stored,            \* the PNG on disk named by -o
  launch,            \* how many times the program was started
  prevOutput,        \* history: output of the previous launch
  prevThreads        \* history: number_of_threads of the previous launch

vars ==
  << file, argv, pc, exit_status, selected_entry, number_of_threads, input,
     output, i, thread_arguments, worker, wrote, joined, failed,
     stored, launch, prevOutput, prevThreads >>

envVars ==
  << file, launch, prevOutput, prevThreads >>

threadVars ==
  << thread_arguments, worker, wrote, joined, failed >>

ProcessStart ==
  /\ pc = "getopt"
  /\ exit_status = -1
  /\ selected_entry = find_entry_by_name(DEFAULT_KERNEL_NAME)
  /\ number_of_threads = 1
  /\ input = NoImage
  /\ output = NoImage
  /\ i = 0
  /\ thread_arguments = [t \in Threads |-> NoArguments]
  /\ worker = [t \in Threads |-> UnbornWorker]
  /\ wrote = [t \in Threads |-> {}]
  /\ joined = {}
  /\ failed = FALSE

Init ==
  /\ file \in { f \in Files : f.rows * f.columns <= MaxPixels } \cup {CorruptFile}
  /\ argv \in Argvs
  /\ ProcessStart
  /\ stored = NoImage
  /\ launch = 1
  /\ prevOutput = NoImage
  /\ prevThreads = 0


\* -------------------------------------------------------------------- main
\* The process runs: exit ends main and every pthread with it.
Running ==
  pc \notin {"exited", "crashed", "done"}

\* The process ends: its memory (and this model's record of what its threads
\* did) is gone; only the exit status and the files stay.
ProcessEnd(how, status) ==
  /\ pc' = how
  /\ exit_status' = status
  /\ selected_entry' = NULL
  /\ number_of_threads' = 1
  /\ input' = NoImage
  /\ output' = NoImage
  /\ i' = 0
  /\ thread_arguments' = [t \in Threads |-> NoArguments]
  /\ worker' = [t \in Threads |-> UnbornWorker]
  /\ wrote' = [t \in Threads |-> {}]
  /\ joined' = {}

\* usage(): print and exit(1).
usage ==
  ProcessEnd("exited", 1)

\* The getopt loop and the three checks that follow it.
main_getopt ==
  /\ pc = "getopt"
  /\ LET entry == find_entry_by_name(argv.k)
     IN  IF \/ entry = NULL
            \/ argv.i = NoArg
            \/ argv.o = NoArg
            \/ argv.i = argv.o
         THEN usage
         ELSE /\ selected_entry' = entry
              /\ number_of_threads' = argv.n
              /\ pc' = "load_and_decode"
              /\ UNCHANGED << exit_status, input, output, i, thread_arguments,
                              worker, wrote, joined >>
  /\ UNCHANGED << envVars, argv, failed, stored >>

\* load_and_decode(&input, input_file_name): an error is printed, nothing
\* else; main goes on either way.
load_and_decode ==
  /\ pc = "load_and_decode"
  /\ LET decoded == lodepng_decode32_file(file)
     IN  input' = [pixels  |-> decoded.pixels,
                   rows    |-> decoded.rows,
                   columns |-> decoded.columns]
  /\ pc' = "init_image"
  /\ UNCHANGED << envVars, argv, exit_status, selected_entry, number_of_threads,
                  output, i, threadVars, stored >>

\* init_image(&output, input.rows, input.columns): malloc does not clear.
init_image ==
  /\ pc = "init_image"
  /\ output' = [pixels  |-> [off \in 0 .. (input.columns * input.rows * BYTES_PER_PIXEL - 1)
                               |-> Indeterminate],
                rows    |-> input.rows,
                columns |-> input.columns]
  /\ pc' = "declare"
  /\ UNCHANGED << envVars, argv, exit_status, selected_entry, number_of_threads,
                  input, i, threadVars, stored >>

\* Where main goes when the creation loop's test is reached with counter k.
AfterCreate(k) ==
  IF k < number_of_threads THEN "create"
  ELSE IF 0 < number_of_threads THEN "join" ELSE "encode_and_store"

\* Where main goes when the join loop's test is reached with counter k.
AfterJoin(k) ==
  IF k < number_of_threads THEN "join" ELSE "encode_and_store"

\* pthread_t threads[number_of_threads]; thread_arguments_t ...[number_of_threads];
\* An array of negative length is undefined: the process dies or goes on.
main_declare ==
  /\ pc = "declare"
  /\ \E outcome \in IF number_of_threads < 0 THEN {"go on", "crash"} ELSE {"go on"} :
       IF outcome = "crash"
       THEN ProcessEnd("crashed", 139)
       ELSE /\ pc' = AfterCreate(0)
            /\ i' = 0
            /\ UNCHANGED << exit_status, selected_entry, number_of_threads, input,
                            output, thread_arguments, worker, wrote, joined >>
  /\ UNCHANGED << envVars, argv, failed, stored >>

\* check_thread_rtn without its exit.
check_thread_rtn_ignored(rtn) ==
  FALSE

\* check_thread_rtn: TRUE when it calls exit(1).
check_thread_rtn(rtn) ==
  rtn # 0

\* What pthread_create and pthread_join may return.
ThreadRtn ==
  {0, 11}

\* One round of the creation loop (lines 345-356).
main_create ==
  /\ pc = "create"
  /\ i < number_of_threads
  /\ \E rtn \in ThreadRtn :
       /\ failed' = (failed \/ rtn # 0)
       /\ IF check_thread_rtn(rtn)
          THEN ProcessEnd("exited", 1)
          ELSE /\ thread_arguments' =
                    [thread_arguments EXCEPT ![i] =
                       [thread_id    |-> i,
                        section_size |-> CDiv(IMG_BYTE(input.columns, input.rows,
                                                       input.columns, BYTES_PER_PIXEL),
                                              number_of_threads),
                        kernel       |-> selected_entry]]
               /\ worker' = IF rtn = 0 THEN [worker EXCEPT ![i].pc = "entry"] ELSE worker
               /\ pc' = AfterCreate(i + 1)
               /\ i' = IF AfterCreate(i + 1) = "create" THEN i + 1 ELSE 0
               /\ UNCHANGED << exit_status, selected_entry, number_of_threads,
                               input, output, wrote, joined >>
  /\ UNCHANGED << envVars, argv, stored >>

\* A join that does not wait for the thread.
JoinReturns_without_waiting(rtn, t) ==
  TRUE

\* pthread_join returns 0 only once the thread has returned; it may fail at
\* once.
JoinReturns(rtn, t) ==
  rtn = 0 => worker[t].pc = "returned"

\* One round of the join loop (lines 359-362).
main_join ==
  /\ pc = "join"
  /\ i < number_of_threads
  /\ \E rtn \in ThreadRtn :
       /\ JoinReturns(rtn, i)
       /\ failed' = (failed \/ rtn # 0)
       /\ IF check_thread_rtn(rtn)
          THEN ProcessEnd("exited", 1)
          ELSE /\ joined' = IF rtn = 0 THEN joined \cup {i} ELSE joined
               /\ pc' = AfterJoin(i + 1)
               /\ i' = i + 1
               /\ UNCHANGED << exit_status, selected_entry, number_of_threads,
                               input, output, thread_arguments, worker, wrote >>
  /\ UNCHANGED << envVars, argv, stored >>

\* encode_and_store(&output, output_file_name): lodepng reads every byte of
\* the buffer; the bytes no thread wrote read as whatever the heap held.
encode_and_store ==
  /\ pc = "encode_and_store"
  /\ \E g \in HeapBytes :
       stored' = [output EXCEPT !.pixels =
                    [off \in DOMAIN output.pixels |->
                       IF output.pixels[off] = Indeterminate THEN g
                       ELSE output.pixels[off]]]
  /\ pc' = "free_image"
  /\ UNCHANGED << envVars, argv, exit_status, selected_entry, number_of_threads,
                  input, output, i, threadVars >>

\* free_image twice, and main's end: the process exits with status 0.
free_image ==
  /\ pc = "free_image"
  /\ ProcessEnd("done", 0)
  /\ UNCHANGED << envVars, argv, failed, stored >>

\* ---------------------------------------------------------------- convolve
\* TapOffset with the row clamped and the column left as it is.
TapOffset_column_unclamped(in, r, c, kr, kc, b) ==
  LET half_dim == KERNEL_DIM \div 2
      R == r + (kr - half_dim)
      C == c + (kc - half_dim)
  IN  IMG_BYTE(in.columns, CLAMP(R, 0, in.rows - 1), C, b)

\* The offset line 167 reads for tap (kr, kc) of channel b of pixel (r, c).
TapOffset(in, r, c, kr, kc, b) ==
  LET half_dim == KERNEL_DIM \div 2
      R == r + (kr - half_dim)
      C == c + (kc - half_dim)
  IN  IMG_BYTE(in.columns, CLAMP(R, 0, in.rows - 1), CLAMP(C, 0, in.columns - 1), b)

\* ConvolveValue without line 173, the clamp of the quotient.
ConvolveValue_unclamped(in, kernel, kernel_norm, r, c, b) ==
  IF b = ALPHA_OFFSET
  THEN Load(in, IMG_BYTE(in.columns, r, c, b))
  ELSE LET tap(kr, kc) ==
             LET pixelValue == Load(in, TapOffset(in, r, c, kr, kc, b))
             IN  kernel[kr + 1][kc + 1] * pixelValue
           value == SumTaps([n \in DOMAIN KernelTaps |->
                               tap(KernelTaps[n][1], KernelTaps[n][2])],
                            KERNEL_DIM * KERNEL_DIM)
       IN  CDiv(value, kernel_norm)

\* The value convolve gives channel b of pixel (r, c) (lines 153-174).
ConvolveValue(in, kernel, kernel_norm, r, c, b) ==
  IF b = ALPHA_OFFSET
  THEN Load(in, IMG_BYTE(in.columns, r, c, b))
  ELSE LET tap(kr, kc) ==
             LET pixelValue == Load(in, TapOffset(in, r, c, kr, kc, b))
             IN  kernel[kr + 1][kc + 1] * pixelValue
           value == SumTaps([n \in DOMAIN KernelTaps |->
                               tap(KernelTaps[n][1], KernelTaps[n][2])],
                            KERNEL_DIM * KERNEL_DIM)
       IN  CLAMP(CDiv(value, kernel_norm), 0, 255)

\* The input offsets convolve reads for pixel (r, c) (lines 158 and 167).
ConvolveReads(in, r, c) ==
  { IMG_BYTE(in.columns, r, c, ALPHA_OFFSET) } \cup
  { TapOffset(in, r, c, kr, kc, b) :
      kr \in 0 .. KERNEL_DIM - 1, kc \in 0 .. KERNEL_DIM - 1,
      b \in 0 .. ALPHA_OFFSET - 1 }

\* The output offsets convolve writes for pixel (r, c).
ConvolveWrites(columns, r, c) ==
  { IMG_BYTE(columns, r, c, b) : b \in 0 .. BYTES_PER_PIXEL - 1 }

\* The tests of the two for loops (lines 148 and 149).
RowTest(columns, rows, next_section_offset, r) ==
  IMG_BYTE(columns, r, 0, 0) <= next_section_offset /\ r < rows

ColumnTest(columns, next_section_offset, r, c) ==
  IMG_BYTE(columns, r, c, 0) <= next_section_offset /\ c < columns

\* From the inner loop's test at (r, c): the pixel whose body runs next, or
\* run = FALSE when the outer loop ends first.  c_start changes only in the
\* body, so a row whose body never runs hands it on to the next row.
RECURSIVE Scan(_, _, _, _, _, _)
Scan(columns, rows, next_section_offset, r, c, c_start) ==
  IF ColumnTest(columns, next_section_offset, r, c)
  THEN [run |-> TRUE, r |-> r, c |-> c]
  ELSE IF RowTest(columns, rows, next_section_offset, r + 1)
       THEN Scan(columns, rows, next_section_offset, r + 1, 0 + c_start, c_start)
       ELSE [run |-> FALSE, r |-> r + 1, c |-> c]

\* c_start as lines 143-146 compute it.
ColumnStart(current_section_offset, columns, r_start) ==
  IF r_start # 0
  THEN CDiv(current_section_offset - BYTES_PER_PIXEL * columns * r_start,
            BYTES_PER_PIXEL) + 1
  ELSE 0

\* pthread_create handed every thread the first slot of thread_arguments.
ArgumentsOf_first_slot(w) ==
  thread_arguments[0]

\* The thread_arguments_t that `arguments` points to in thread w: main passed
\* &thread_arguments[i] to pthread_create (line 354).
ArgumentsOf(w) ==
  thread_arguments[w]

\* What the division of line 142 does: with columns = 0 it divides by zero,
\* which is undefined (the process dies of SIGFPE, or goes on).
RowStartOutcomes(columns) ==
  IF BYTES_PER_PIXEL * columns = 0 THEN {"go on", "crash"} ELSE {"go on"}

\* Lines 126-148: the locals, and the first test of the outer loop.
convolve_entry(w) ==
  /\ Running
  /\ worker[w].pc = "entry"
  /\ \E outcome \in RowStartOutcomes(input.columns) :
       IF outcome = "crash"
       THEN ProcessEnd("crashed", 136)
       ELSE
         /\ LET arguments              == ArgumentsOf(w)
                thread_id              == arguments.thread_id
                section_size           == arguments.section_size
                columns                == input.columns
                rows                   == input.rows
                current_section_offset == section_size * thread_id
                next_section_offset    == current_section_offset + section_size
                r_start == IF BYTES_PER_PIXEL * columns = 0 THEN 0
                           ELSE CDiv(current_section_offset, BYTES_PER_PIXEL * columns)
                c_start == ColumnStart(current_section_offset, columns, r_start)
            IN  worker' = [worker EXCEPT ![w] =
                  [pc |-> IF RowTest(columns, rows, next_section_offset, r_start)
                          THEN "inner" ELSE "return",
                   thread_id |-> thread_id,
                   section_size |-> section_size,
                   kernel |-> arguments.kernel,
                   kernel_norm |-> normalize_kernel(kernel_catalog[arguments.kernel]),
                   next_section_offset |-> next_section_offset,
                   r |-> r_start,
                   c |-> 0 + c_start,
                   c_start |-> c_start]]
         /\ UNCHANGED << pc, exit_status, selected_entry, number_of_threads,
                         input, output, i, thread_arguments, wrote, joined >>
  /\ UNCHANGED << envVars, argv, failed, stored >>

\* The store of `value` into a pixel_t (unsigned char), line 176.
Store(pixels, size, off, value) ==
  IF 0 <= off /\ off < size THEN [pixels EXCEPT ![off] = value % 256] ELSE pixels

RECURSIVE StorePixel(_, _, _, _, _, _, _, _)
\* The loop over b with lines 158 and 167 reading output->pixels.
StorePixel_from_output(pixels, size, in, kernel, kernel_norm, r, c, b) ==
  IF b = BYTES_PER_PIXEL THEN pixels
  ELSE StorePixel(Store(pixels, size,
                        IMG_BYTE(in.columns, r, c, b),
                        ConvolveValue([in EXCEPT !.pixels = pixels],
                                      kernel, kernel_norm, r, c, b)),
                  size, in, kernel, kernel_norm, r, c, b + 1)

\* The loop over b (lines 153-177), from channel b on.
StorePixel(pixels, size, in, kernel, kernel_norm, r, c, b) ==
  IF b = BYTES_PER_PIXEL THEN pixels
  ELSE StorePixel(Store(pixels, size,
                        IMG_BYTE(in.columns, r, c, b),
                        ConvolveValue(in, kernel, kernel_norm, r, c, b)),
                  size, in, kernel, kernel_norm, r, c, b + 1)

\* One execution of the inner loop's body (lines 150-177) and the loop tests
\* before it.
convolve_pixel(w) ==
  /\ Running
  /\ worker[w].pc = "inner"
  /\ \E at \in { Scan(input.columns, input.rows, worker[w].next_section_offset,
                      worker[w].r, worker[w].c, worker[w].c_start) } :
       /\ at.run
       /\ output' = [output EXCEPT !.pixels =
            StorePixel(output.pixels, output.columns * output.rows * BYTES_PER_PIXEL,
                       input, kernel_catalog[worker[w].kernel],
                       worker[w].kernel_norm, at.r, at.c, 0)]
       /\ wrote' = [wrote EXCEPT ![w] = @ \cup ConvolveWrites(input.columns, at.r, at.c)]
       /\ worker' = [worker EXCEPT ![w].r = at.r, ![w].c = at.c + 1, ![w].c_start = 0]
  /\ UNCHANGED << envVars, argv, pc, exit_status, selected_entry, number_of_threads,
                  input, i, thread_arguments, joined, failed, stored >>

\* convolve returning only once the next thread (cyclically) has returned.
convolve_return_after_neighbour(w) ==
  /\ Running
  /\ worker[(w + 1) % MaxThreads].pc \in {"unborn", "returned"}
  /\ \/ worker[w].pc = "return"
     \/ /\ worker[w].pc = "inner"
        /\ ~ Scan(input.columns, input.rows, worker[w].next_section_offset,
                  worker[w].r, worker[w].c, worker[w].c_start).run
  /\ worker' = [worker EXCEPT ![w].pc = "returned"]
  /\ UNCHANGED << envVars, argv, pc, exit_status, selected_entry, number_of_threads,
                  input, output, i, thread_arguments, wrote, joined,
                  failed, stored >>

\* The loops end and convolve returns (line 181).
convolve_return(w) ==
  /\ Running
  /\ \/ worker[w].pc = "return"
     \/ /\ worker[w].pc = "inner"
        /\ ~ Scan(input.columns, input.rows, worker[w].next_section_offset,
                  worker[w].r, worker[w].c, worker[w].c_start).run
  /\ worker' = [worker EXCEPT ![w].pc = "returned"]
  /\ UNCHANGED << envVars, argv, pc, exit_status, selected_entry, number_of_threads,
                  input, output, i, thread_arguments, wrote, joined,
                  failed, stored >>

convolve(w) ==
  \/ convolve_entry(w)
  \/ convolve_pixel(w)
  \/ convolve_return(w)

main ==
  \/ main_getopt
  \/ load_and_decode
  \/ init_image
  \/ main_declare
  \/ main_create
  \/ main_join
  \/ encode_and_store
  \/ free_image

Next ==
  \/ main
  \/ \E w \in Threads : convolve(w)

Spec ==
  Init /\ [][Next]_vars

\* The scheduler does not leave every thread that can take a step waiting
\* for ever.
Fairness ==
  WF_vars(Next)

SpecFair ==
  Init /\ [][Next]_vars /\ Fairness

\* ---------------------------------------------------------------- relaunch
\* The worker-count test: the program is run with -n 1 and then again with
\* -n 4 on the same file and kernel; the first run's output is kept.
Files4 ==
  { [rows |-> 4 * q, columns |-> 4, seed |-> s] : q \in 1 .. MaxQuads, s \in Patterns }

RelaunchThreads ==
  {4}

InitRelaunch ==
  /\ file \in Files4
  /\ argv \in { a \in Argvs : a.i = "in.png" /\ a.o = "out.png" /\ a.n = 1
                              /\ a.k \in DOMAIN kernel_catalog }
  /\ ProcessStart
  /\ stored = NoImage
  /\ launch = 1
  /\ prevOutput = NoImage
  /\ prevThreads = 0

Relaunch ==
  /\ pc = "done"
  /\ launch < MaxLaunches
  /\ launch' = launch + 1
  /\ prevOutput' = stored
  /\ prevThreads' = argv.n
  /\ \E n \in RelaunchThreads : argv' = [argv EXCEPT !.n = n]
  /\ pc' = "getopt"
  /\ exit_status' = -1
  /\ selected_entry' = find_entry_by_name(DEFAULT_KERNEL_NAME)
  /\ number_of_threads' = 1
  /\ failed' = FALSE
  /\ UNCHANGED << file, input, output, i, thread_arguments, worker, wrote, joined,
                  stored >>

NextRelaunch ==
  \/ main
  \/ \E w \in Threads : convolve(w)
  \/ Relaunch

SpecRelaunch ==
  InitRelaunch /\ [][NextRelaunch]_vars

\* ================================================================== claims
\* The bytes of the image: rows * columns * 4.
TotalBytes ==
  input.rows * input.columns * 4

\* main has passed the last join and has not yet freed the buffers.
PassComplete ==
  pc \in {"encode_and_store", "free_image"}

\* The pthreads main starts.
Started ==
  0 .. number_of_threads - 1

\* A pass over an image of at least one pixel with a thread count that
\* divides the byte count.
EvenPass ==
  /\ input.rows >= 1
  /\ input.columns >= 1
  /\ number_of_threads >= 1
  /\ TotalBytes % number_of_threads = 0

\* C1 (stated as claimed; the code violates it): once all N threads have
\* finished a pass whose N divides rows*columns*4, every byte of every output
\* pixel has been written by some thread.
Coverage ==
  (PassComplete /\ EvenPass) =>
    \A r \in 0 .. input.rows - 1 : \A c \in 0 .. input.columns - 1 :
      \A b \in 0 .. 3 :
        \E w \in Started : (input.columns * 4 * r + 4 * c + b) \in wrote[w]

\* C2 (stated as claimed; the code violates it): in a pass whose N divides
\* rows*columns*4 no output byte is written by two different threads.
DisjointWrites ==
  EvenPass =>
    \A w1 \in Started : \A w2 \in Started :
      w1 # w2 => wrote[w1] \cap wrote[w2] = {}

\* C3 (stated as claimed; the code violates it): for rows and columns
\* divisible by 4, the output buffer of the run with 4 threads is
\* byte-identical to the output buffer of the run with 1 thread on the same
\* input and kernel.
WorkerCountInvariance ==
  ( /\ PassComplete
    /\ launch = 2
    /\ prevThreads = 1
    /\ number_of_threads = 4
    /\ input.rows % 4 = 0
    /\ input.columns % 4 = 0 )
  => output.pixels = prevOutput.pixels

\* The reference value of C4: the 9 taps with edge replication, the division
\* by the normalization factor truncated toward zero, the result clamped
\* into 0 .. 255.
RefClamp(v, lo, hi) ==
  IF v < lo THEN lo ELSE IF v > hi THEN hi ELSE v

RefTrunc(a, b) ==
  LET mag(x) == IF x < 0 THEN 0 - x ELSE x
  IN  IF a * b >= 0 THEN mag(a) \div mag(b) ELSE 0 - (mag(a) \div mag(b))

RefNormalize(k) ==
  LET sum == k[1][1] + k[1][2] + k[1][3] + k[2][1] + k[2][2] + k[2][3]
             + k[3][1] + k[3][2] + k[3][3]
  IN  IF sum = 0 THEN 1 ELSE sum

RefInput(r, c, ch) ==
  input.pixels[input.columns * 4 * RefClamp(r, 0, input.rows - 1)
               + 4 * RefClamp(c, 0, input.columns - 1) + ch]

Reference(k, r, c, ch) ==
  LET w(kr, kc) == k[kr + 1][kc + 1] * RefInput(r + kr - 1, c + kc - 1, ch)
      sum == w(0, 0) + w(0, 1) + w(0, 2) + w(1, 0) + w(1, 1) + w(1, 2)
             + w(2, 0) + w(2, 1) + w(2, 2)
  IN  RefClamp(RefTrunc(sum, RefNormalize(k)), 0, 255)

\* C4: with one thread, after the pass every output pixel is written and each
\* red, green and blue byte equals the reference value.
SequentialBaseline ==
  (PassComplete /\ number_of_threads = 1 /\ input.rows >= 1 /\ input.columns >= 1) =>
    \A r \in 0 .. input.rows - 1 : \A c \in 0 .. input.columns - 1 :
      /\ \A b \in 0 .. 3 : (input.columns * 4 * r + 4 * c + b) \in wrote[0]
      /\ \A ch \in 0 .. 2 :
           output.pixels[input.columns * 4 * r + 4 * c + ch]
             = Reference(kernel_catalog[selected_entry], r, c, ch)

\* C4's case: a one-thread pass over a 2x2 image with the emboss kernel (its
\* sums go below 0 and above 255, its normalization factor is -2) is complete.
SequentialBaselineWitness ==
  /\ PassComplete
  /\ number_of_threads = 1
  /\ input.rows = 2
  /\ input.columns = 2
  /\ selected_entry = "emboss"
  /\ \E off \in 0 .. TotalBytes - 1 : output.pixels[off] \notin {0, 255}
  /\ \E off \in 0 .. TotalBytes - 1 : output.pixels[off] = 0

\* C5 (stated as claimed; the code violates it): a completed pass with the
\* identity kernel whose N divides rows*columns*4 leaves the output buffer
\* equal to the input buffer at every byte.
IdentityProperty ==
  (PassComplete /\ EvenPass /\ selected_entry = "identity") =>
    \A off \in 0 .. TotalBytes - 1 : output.pixels[off] = input.pixels[off]

\* C6: whenever main is at or past encode_and_store, every one of the N
\* threads has returned from convolve and has been joined.
JoinBeforeUse ==
  (PassComplete /\ number_of_threads >= 1) =>
    \A w \in Started : worker[w].pc = "returned" /\ w \in joined

\* C6's case: main has encoded the output of a pass of three threads.
JoinBeforeUseWitness ==
  /\ pc = "free_image"
  /\ number_of_threads = 3
  /\ stored # NoImage
  /\ joined = {0, 1, 2}

\* The nearest coordinate inside 0 .. n-1.
Nearest(x, n) ==
  IF x < 0 THEN 0 ELSE IF x >= n THEN n - 1 ELSE x

\* C7: every offset a thread reads from the input or writes to the output
\* lies in 0 .. rows*columns*4 - 1, and each tap reads the nearest pixel
\* inside the image.  (A thread is at "inner" right after each pixel it
\* handles: that pixel is (r, c - 1).)
InBoundsAccess ==
  \A w \in Threads :
    /\ \A off \in wrote[w] : 0 <= off /\ off < TotalBytes
    /\ (wrote[w] # {} /\ worker[w].pc = "inner") =>
         \A r \in {worker[w].r} : \A c \in {worker[w].c - 1} :
           /\ \A off \in ConvolveReads(input, r, c) : 0 <= off /\ off < TotalBytes
           /\ \A kr \in 0 .. 2 : \A kc \in 0 .. 2 : \A b \in 0 .. 2 :
                TapOffset(input, r, c, kr, kc, b)
                  = input.columns * 4 * Nearest(r + kr - 1, input.rows)
                    + 4 * Nearest(c + kc - 1, input.columns) + b

\* C7's case: a thread has handled the single pixel of a 1x1 image, all of
\* whose neighbours lie outside the image.
InBoundsAccessWitness ==
  /\ input.rows = 1
  /\ input.columns = 1
  /\ \E w \in Threads : wrote[w] = {0, 1, 2, 3}

\* C8 (stated as claimed; the code violates it): every output offset thread
\* i of N writes lies in [i*S, (i+1)*S) with S = floor(rows*columns*4 / N).
WritesInAssignedRange ==
  (number_of_threads >= 1) =>
    \A w \in Started :
      \A off \in wrote[w] :
        /\ w * (TotalBytes \div number_of_threads) <= off
        /\ off < (w + 1) * (TotalBytes \div number_of_threads)

\* The command line has one of the configuration errors.
ConfigurationError ==
  \/ argv.k \notin DOMAIN kernel_catalog
  \/ argv.i = NoArg
  \/ argv.o = NoArg
  \/ argv.i = argv.o
  \/ argv.n <= 0

\* C9 (stated as claimed; the code violates it): with a configuration error
\* main exits without decoding, without starting a thread and without
\* encoding.
ConfigurationRejected ==
  ConfigurationError =>
    /\ pc \in {"getopt", "exited"}
    /\ input = NoImage
    /\ \A w \in Threads : worker[w].pc = "unborn"
    /\ stored = NoImage

\* C10: once pthread_create or pthread_join has returned non-zero the process
\* has exited with a non-zero status, nothing more happens (no retry), and
\* no output was encoded.
InfrastructureFailureFatal ==
  failed =>
    /\ pc = "exited"
    /\ exit_status # 0
    /\ stored = NoImage
    /\ ~ ENABLED Next

\* C10's case: a pthread call failed and the process has exited.
InfrastructureFailureWitness ==
  /\ failed
  /\ pc = "exited"
  /\ exit_status = 1
  /\ argv.n >= 2

\* C11 (stated as claimed; the code violates it): after a completed pass
\* whose N divides rows*columns*4, the alpha byte of every output pixel
\* equals the alpha byte of the input pixel at the same coordinates.
AlphaPassthrough ==
  (PassComplete /\ EvenPass) =>
    \A r \in 0 .. input.rows - 1 : \A c \in 0 .. input.columns - 1 :
      output.pixels[input.columns * 4 * r + 4 * c + ALPHA_OFFSET]
        = input.pixels[input.columns * 4 * r + 4 * c + ALPHA_OFFSET]

\* What load_and_decode put into the input buffer.
Decoded ==
  [off \in 0 .. (file.rows * file.columns * 4 - 1) |-> FileByte(file.seed, off)]

\* Every offset some thread has written.
Written ==
  UNION { wrote[w] : w \in Threads }

\* C12: from the creation of the first thread to the last join the input
\* buffer holds the bytes that were decoded (no thread writes it), and no
\* thread reads the output buffer: every byte the threads have written is
\* determined by the input buffer and the kernel alone (the input's alpha
\* byte, the reference value of the input's colour bytes), whatever the
\* output buffer held.
ReadOnlyInputWriteOnlyOutput ==
  /\ (pc \in {"create", "join", "encode_and_store"} /\ input.rows >= 1) =>
       input.pixels = Decoded
  /\ (pc = "encode_and_store" /\ input.rows >= 1) =>
       \A off \in Written :
         output.pixels[off] =
           IF off % 4 = ALPHA_OFFSET
           THEN Decoded[off]
           ELSE Reference(kernel_catalog[selected_entry],
                          off \div (4 * input.columns),
                          (off % (4 * input.columns)) \div 4,
                          off % 4)

\* C12's case: four threads have finished a pass over a 2x2 image with the
\* gaussian blur, in which each pixel's value depends on its neighbours.
ReadOnlyInputWriteOnlyOutputWitness ==
  /\ pc = "encode_and_store"
  /\ number_of_threads = 4
  /\ input.rows = 2
  /\ input.columns = 2
  /\ selected_entry = "gaussian-blur"
  /\ Written = 0 .. 15

\* The sum of the nine weights of a catalog entry, written out.
WeightSum(name) ==
  LET k == kernel_catalog[name]
  IN  k[1][1] + k[1][2] + k[1][3] + k[2][1] + k[2][2] + k[2][3]
      + k[3][1] + k[3][2] + k[3][3]

\* C13: the normalization factor a thread got from normalize_kernel for its
\* catalog kernel is the sum of the nine weights when that sum is not 0 and
\* 1 when it is 0 (edge-detect); it is never 0.
NormalizationInvariant ==
  \A w \in Threads :
    worker[w].pc \in {"inner", "return", "returned"} =>
      /\ worker[w].kernel_norm # 0
      /\ WeightSum(worker[w].kernel) # 0 =>
           worker[w].kernel_norm = WeightSum(worker[w].kernel)
      /\ WeightSum(worker[w].kernel) = 0 => worker[w].kernel_norm = 1

\* C13's case: a thread holds the factor of edge-detect, whose weights sum
\* to 0.
NormalizationWitness ==
  \E w \in Threads :
    /\ worker[w].pc \in {"inner", "return", "returned"}
    /\ worker[w].kernel = "edge-detect"
    /\ WeightSum("edge-detect") = 0
    /\ worker[w].kernel_norm = 1

\* C14 (stated as claimed; the code violates it): the section size handed to
\* every thread is floor(rows*columns*4 / N), and thread i's byte range runs
\* from i times that size up to (i+1) times that size.
RangeSize ==
  (number_of_threads >= 1 /\ input.rows >= 1 /\ input.columns >= 1) =>
    \A w \in Started :
      /\ thread_arguments[w] # NoArguments =>
           thread_arguments[w].section_size = TotalBytes \div number_of_threads
      /\ worker[w].pc \in {"inner", "return", "returned"} =>
           /\ worker[w].section_size = TotalBytes \div number_of_threads
           /\ worker[w].next_section_offset
                = (w + 1) * (TotalBytes \div number_of_threads)

\* C15 (stated as claimed; the code violates it): when a thread's inner loop
\* is over for the row it is in and the outer loop goes on to a later row,
\* the inner loop of that row starts at column 0 (the row starts at
\* 0 + c_start, so c_start must be 0 by then).
StartColumnRule ==
  \A w \in Threads :
    ( /\ worker[w].pc = "inner"
      /\ ~ ColumnTest(input.columns, worker[w].next_section_offset,
                      worker[w].r, worker[w].c)
      /\ RowTest(input.columns, input.rows, worker[w].next_section_offset,
                 worker[w].r + 1) )
    => 0 + worker[w].c_start = 0

\* C16 (stated as claimed; the code violates it): when rows*columns*4 is not
\* divisible by N, none of the trailing (rows*columns*4 mod N) bytes of the
\* output buffer is written by a thread.
TruncatedTail ==
  ( /\ number_of_threads >= 1
    /\ input.rows >= 1
    /\ input.columns >= 1
    /\ TotalBytes % number_of_threads # 0 )
  => \A w \in Started :
       \A off \in wrote[w] : off < TotalBytes - (TotalBytes % number_of_threads)

\* A started thread that has not returned can take its next step whatever
\* the other threads and main are doing, as long as the process runs.
NeverBlocked ==
  \A w \in Threads :
    (Running /\ worker[w].pc \in {"entry", "inner", "return"}) =>
      ENABLED convolve(w)

\* C17: with an image of at least one pixel and N >= 1, under fair
\* scheduling, no started thread is ever blocked, and either a pthread call
\* fails or main reaches encode_and_store with every thread returned.
Termination ==
  /\ [] NeverBlocked
  /\ (file # CorruptFile /\ ~ ConfigurationError) =>
       <> ( \/ failed
            \/ /\ pc = "encode_and_store"
               /\ \A w \in Started : worker[w].pc = "returned" )

\* C17's case: main has reached encode_and_store after four threads ran over
\* a 4-pixel image with no pthread failure.
TerminationWitness ==
  /\ pc = "encode_and_store"
  /\ ~ failed
  /\ number_of_threads = 4
  /\ TotalBytes = 16
  /\ \A w \in Started : worker[w].pc = "returned" /\ w \in joined

RECURSIVE RunLoops(_, _, _, _, _)
RunLoops(pixels, next_section_offset, r, c, c_start) ==
  LET at == Scan(input.columns, input.rows, next_section_offset, r, c, c_start)
  IN  IF at.run
      THEN RunLoops(StorePixel(pixels, TotalBytes, input,
                               kernel_catalog[selected_entry],
                               normalize_kernel(kernel_catalog[selected_entry]),
                               at.r, at.c, 0),
                    next_section_offset, at.r, at.c + 1, 0)
      ELSE pixels

\* The buffer after threads w, w+1, ..., N-1 have run one after the other,
\* each from its entry to its return.
RECURSIVE OneAfterTheOther(_, _)
OneAfterTheOther(pixels, w) ==
  IF w >= number_of_threads THEN pixels
  ELSE LET section_size           == thread_arguments[w].section_size
           current_section_offset == section_size * w
           next_section_offset    == current_section_offset + section_size
           r_start == CDiv(current_section_offset, BYTES_PER_PIXEL * input.columns)
           c_start == ColumnStart(current_section_offset, input.columns, r_start)
       IN  OneAfterTheOther(
             IF RowTest(input.columns, input.rows, next_section_offset, r_start)
             THEN RunLoops(pixels, next_section_offset, r_start, 0 + c_start, c_start)
             ELSE pixels,
             w + 1)

\* C19: whatever the interleaving was, after the last join the output buffer
\* is the one the threads leave when they run one after the other; and a
\* step never changes the value of an output byte that was already written
\* (two threads that write the same byte write the same value).
ScheduleIndependence ==
  /\ [] ( (pc = "encode_and_store" /\ number_of_threads >= 1 /\ input.columns >= 1) =>
            output.pixels =
              OneAfterTheOther([off \in 0 .. TotalBytes - 1 |-> Indeterminate], 0) )
  /\ [][ pc' \notin {"exited", "crashed", "done"} =>
           \A off \in Written : output'.pixels[off] = output.pixels[off] ]_vars

\* C19's case: a pass over at least two pixels is complete in which two
\* threads wrote the same byte and a third thread wrote too.
ScheduleIndependenceWitness ==
  /\ pc = "encode_and_store"
  /\ TotalBytes >= 8
  /\ \E w1 \in Started : \E w2 \in Started :
       /\ w1 # w2
       /\ wrote[w1] \cap wrote[w2] # {}
       /\ wrote[w1] # wrote[w2]

\* Thread w has read its arguments (lines 126-132).
HasRead(w) ==
  worker[w].pc \in {"inner", "return", "returned"}

\* C20: the slot of a started thread is fully written (thread_id = its index,
\* a section size, the selected kernel) and no later step of the running
\* process changes it; a thread that has read its arguments holds its own
\* index and the section size every other such thread holds; once all N
\* threads have read, their ids are exactly 0 .. N-1.
PrivateArguments ==
  /\ [] ( \A w \in Threads :
            /\ worker[w].pc # "unborn" =>
                 /\ thread_arguments[w].thread_id = w
                 /\ thread_arguments[w].section_size >= 0
                 /\ thread_arguments[w].kernel = selected_entry
            /\ HasRead(w) =>
                 /\ worker[w].thread_id = w
                 /\ worker[w].section_size = thread_arguments[w].section_size
                 /\ \A v \in Threads :
                      HasRead(v) => worker[v].section_size = worker[w].section_size )
  /\ [] ( (number_of_threads >= 1 /\ \A w \in Started : HasRead(w)) =>
            { worker[w].thread_id : w \in Started } = Started )
  /\ [][ \A w \in Threads :
           (worker[w].pc # "unborn" /\ pc' \notin {"exited", "crashed", "done"}) =>
             thread_arguments'[w] = thread_arguments[w] ]_vars

\* C20's case: main is still creating threads (it has just filled slot 2)
\* while thread 0 has already read its arguments and written a pixel.
PrivateArgumentsWitness ==
  /\ pc = "create"
  /\ i = 3
  /\ number_of_threads = 4
  /\ HasRead(0)
  /\ wrote[0] # {}
  /\ worker[2].pc = "entry"
  /\ thread_arguments[2].thread_id = 2

====
